---- MODULE Spec2Model ----
(***************************************************************************)
(* A model of XandrAPI.py: the report orchestrator                         *)
(* (generate_and_poll_report), the tenacity-wrapped mutating calls         *)
(* (update_line_item_profile_geo, update_conversion_pixel) and the geo and *)
(* pixel batch loops of the Streamlit script.                              *)
(*                                                                         *)
(* Every HTTP exchange is one step.  What the remote API answers is drawn  *)
(* from a small set of response classes, one per branch the code takes on  *)
(* the answer.                                                             *)
(***************************************************************************)
EXTENDS Integers, Sequences, FiniteSets, TLC

VARIABLES
    \* ---- generate_and_poll_report ----
    rpc,        \* position in generate_and_poll_report
    post,       \* class of the answer to the report-creation POST
    retries,    \* the local variable retries (line 237)
    polled,     \* what each status GET produced, in order
    sleeps,     \* number of time.sleep(5) calls made
    downloads,  \* number of GETs on /report-download
    outcome,    \* how the run left creation / polling
    dl,         \* how the download ended
    artifact,   \* st.download_button was called (the artifact is offered)
    rui,        \* operator-visible messages of the run (st.*)
    rlog,       \* log records of the run (logging.*)
    \* ---- the Streamlit session and the geo / pixel tools ----
    api_token,      \* st.session_state["api_token"]
    username,       \* st.session_state["username"]
    sidebar,        \* the message the login section shows in this script run
    tool,           \* the batch the script run executes: "none", "geo", "pixel"
    pc,             \* position of the script run
    batchEnd,       \* how the script run that was started ended
    line_item_ids,  \* the batch (line 380 / 456)
    idx,            \* index in line_item_ids of the item being processed
    pixel_id,       \* int(new_pixel_id_input)
    city_targets,   \* result of get_cities_for_country
    profile_id,     \* result of get_profile_id_for_line_item for the item
    attempt,        \* tenacity's attempt_number of the current invocation
    hist,           \* what each HTTP request of the current invocation did
    ret,            \* how the current invocation of the wrapped call ended
    waits,          \* delays tenacity slept in the current invocation
    cui,            \* operator-visible messages for the current item
    clog,           \* log records for the current item
    fetched,        \* existing_pixels as fetched by the current attempt
    body,           \* existing_pixels after the upsert (the PUT body)
    remote,         \* the remote API's pixel array of each line item
    lastRun,        \* per line item: the last update the API applied
    prevRun,        \* lastRun of the item as it was before the latest PUT
    reports,        \* per processed item: the banner the loop showed
    profilePuts,    \* line items for which a PUT on /profile was issued
    \* ---- a call of get_cities_for_country ----
    cpc,            \* position in get_cities_for_country
    country_name,   \* the argument country_name, a string of characters
    cities_data,    \* json_response['response']['cities'] of a well-formed answer
    city_answer,    \* class of the answer to GET /city
    city_result,    \* the value get_cities_for_country returned
    city_ui,        \* operator-visible messages of the call
    city_log        \* log records of the call

reportVars == <<rpc, post, retries, polled, sleeps, downloads, outcome, dl,
                artifact, rui, rlog>>

sessionVars == <<api_token, username, sidebar>>

callVars == <<profile_id, attempt, hist, ret, waits, cui, clog, fetched, body>>

batchVars == <<tool, pc, batchEnd, line_item_ids, idx, pixel_id, city_targets,
               remote, lastRun, prevRun, reports, profilePuts>>

cityVars == <<cpc, country_name, cities_data, city_answer, city_result,
              city_ui, city_log>>

appVars == <<sessionVars, callVars, batchVars, cityVars>>

vars == <<reportVars, appVars>>

Last(s) == s[Len(s)]

(***************************************************************************)
(* Messages.  A UI message is <<kind, text>>, a log record <<level, text>>.*)
(***************************************************************************)
UiMsg(kind, text) == <<kind, text>>
LogRec(level, text) == <<level, text>>

(***************************************************************************)
(*                     generate_and_poll_report                            *)
(***************************************************************************)
max_retries == 10

\* Answers to POST /report, by the branch lines 18-30 and 222-232 take:
\*   transport : requests raised RequestException (network, non-2xx)
\*   badjson   : the body is not JSON (ValueError)
\*   falsy     : valid JSON that is falsy ({} , [], 0, null)
\*   noid      : a non-empty object without a truthy "report_id"
\*   nondict   : truthy JSON that is no object (has no .get)
\*   ok        : an object carrying a truthy "report_id"
PostAnswers == {"transport", "badjson", "falsy", "noid", "nondict", "ok"}

\* Results of one status GET (lines 240-254):
\*   ready, error      : execution_status has that value
\*   pending, none     : any other value / the key is missing
\*   raise             : the GET, raise_for_status, json() or .get raised
PollAnswers == {"ready", "error", "pending", "none", "raise"}

\* Results of the download step (lines 260-279):
\*   ok        : GET succeeded and the file was written
\*   getfail   : requests.get or raise_for_status raised
\*   writefail : open() or write() raised
DownloadAnswers == {"ok", "getfail", "writefail"}

\* make_api_request: what the caller receives and what is emitted.
make_api_request_returns_None(ans) == ans \in {"transport", "badjson"}

make_api_request_ui(ans) ==
    IF ans = "transport" THEN <<UiMsg("error", "API request failed")>>
    ELSE IF ans = "badjson" THEN <<UiMsg("error", "Invalid JSON response")>>
    ELSE <<>>

make_api_request_log(ans) ==
    IF ans = "transport" THEN <<LogRec("error", "API request failed")>>
    ELSE IF ans = "badjson" THEN <<LogRec("error", "Invalid JSON response")>>
    ELSE <<>>

\* A variant that goes on polling without a report_id.
PostBranch_IgnoresMissingId(ans) ==
    IF make_api_request_returns_None(ans) \/ ans = "falsy" THEN "CreateFailed"
    ELSE IF ans = "nondict" THEN "Raised"
    ELSE "poll"

\* Lines 222-232: the branch taken on the POST's answer.
PostBranch(ans) ==
    IF make_api_request_returns_None(ans) \/ ans = "falsy" THEN "CreateFailed"
    ELSE IF ans = "nondict" THEN "Raised"
    ELSE IF ans = "noid" THEN "NoReportId"
    ELSE "poll"

ReportPost ==
    /\ rpc = "requested"
    /\ \E ans \in PostAnswers :
         LET br == PostBranch(ans) IN
         /\ post' = ans
         /\ rui' = rui \o make_api_request_ui(ans) \o
               (CASE br = "CreateFailed" ->
                       <<UiMsg("error", "Failed to generate the report")>>
                  [] br = "NoReportId" ->
                       <<UiMsg("json", "response"),
                         UiMsg("error", "Failed to retrieve report ID")>>
                  [] OTHER -> <<UiMsg("json", "response")>>)
         /\ rlog' = rlog \o make_api_request_log(ans) \o
               (IF br = "CreateFailed" THEN <<>>
                ELSE <<LogRec("info", "API Response")>>)
         /\ IF br = "poll"
               THEN /\ rpc' = "polling"
                    /\ outcome' = outcome
               ELSE /\ rpc' = "done"
                    /\ outcome' = br
    /\ UNCHANGED <<retries, polled, sleeps, downloads, dl, artifact>>
    /\ UNCHANGED appVars

\* Variants that treat "error", respectively "ready", like any other status.
StatusBranch_ErrorNotTerminal(r) ==
    IF r = "ready" THEN "break"
    ELSE IF r = "raise" THEN "except"
    ELSE "sleep"

StatusBranch_ReadyNotTerminal(r) ==
    IF r = "error" THEN "return"
    ELSE IF r = "raise" THEN "except"
    ELSE "sleep"

\* Lines 243-250: the branch taken on a status GET's result.
StatusBranch(r) ==
    IF r = "ready" THEN "break"
    ELSE IF r = "error" THEN "return"
    ELSE IF r = "raise" THEN "except"
    ELSE "sleep"

\* One iteration of the while loop up to the sleep (lines 238-248, 251-254).
ReportPoll ==
    /\ rpc = "polling"
    /\ \E r \in PollAnswers :
         LET br == StatusBranch(r) IN
         /\ polled' = Append(polled, r)
         /\ CASE br = "break" ->
                   /\ rpc' = "download"
                   /\ outcome' = "Ready"
                   /\ UNCHANGED <<rui, rlog>>
              [] br = "return" ->
                   /\ rpc' = "done"
                   /\ outcome' = "Errored"
                   /\ rui' = Append(rui, UiMsg("error", "An error occurred while generating the report"))
                   /\ rlog' = Append(rlog, LogRec("error", "Report generation error"))
              [] br = "except" ->
                   /\ rpc' = "done"
                   /\ outcome' = "PollFailed"
                   /\ rui' = Append(rui, UiMsg("error", "An error occurred while checking report status"))
                   /\ rlog' = Append(rlog, LogRec("error", "Error while polling report status"))
              [] OTHER ->
                   /\ rpc' = "sleeping"
                   /\ UNCHANGED <<outcome, rui, rlog>>
    /\ UNCHANGED <<post, retries, sleeps, downloads, dl, artifact>>
    /\ UNCHANGED appVars

\* A variant of the loop test that allows one attempt more.
LoopContinues_OffByOne(n) == n <= max_retries

\* Line 238 / 255: the loop test after retries += 1.
LoopContinues(n) == n < max_retries

\* A variant in which a sleep consumes no attempt.
NextRetries_Unchanged(n) == n

\* Line 250: retries += 1.
NextRetries(n) == n + 1

\* Lines 249-250, then the loop test and the while-else (lines 255-257).
ReportSleep ==
    /\ rpc = "sleeping"
    /\ sleeps' = sleeps + 1
    /\ retries' = NextRetries(retries)
    /\ IF LoopContinues(NextRetries(retries))
          THEN /\ rpc' = "polling"
               /\ UNCHANGED <<outcome, rui>>
          ELSE /\ rpc' = "done"
               /\ outcome' = "TimedOut"
               /\ rui' = Append(rui, UiMsg("error", "Report generation timed out"))
    /\ UNCHANGED <<post, polled, downloads, dl, artifact, rlog>>
    /\ UNCHANGED appVars

\* A variant that tries the download again.
AfterDownloadFailure_Retries == "download"

\* Lines 276-279: what follows a failed download.
AfterDownloadFailure == "done"

\* Lines 259-279.
ReportDownload ==
    /\ rpc = "download"
    /\ downloads' = downloads + 1
    /\ \E r \in DownloadAnswers :
         IF r = "ok"
            THEN /\ dl' = "ok"
                 /\ artifact' = TRUE
                 /\ rpc' = "done"
                 /\ rui' = rui \o <<UiMsg("success", "Report downloaded successfully"),
                                    UiMsg("download_button", "Download Report")>>
                 /\ rlog' = rlog
            ELSE /\ dl' = "failed"
                 /\ artifact' = artifact
                 /\ rpc' = AfterDownloadFailure
                 /\ rui' = Append(rui, UiMsg("error", "An error occurred while downloading the report"))
                 /\ rlog' = Append(rlog, LogRec("error", "Error while downloading the report"))
    /\ UNCHANGED <<post, retries, polled, sleeps, outcome>>
    /\ UNCHANGED appVars

(***************************************************************************)
(*                    Data of the geo and pixel tools                      *)
(***************************************************************************)
\* Python values whose truth value the code tests.
PyNone == [t |-> "none"]
PyInt(n) == [t |-> "int", v |-> n]
PyStr(s) == [t |-> "str", v |-> s]
PyList(s) == [t |-> "list", v |-> s]

\* bool(x): None, 0, "" and [] are falsy.
Truthy(x) ==
    CASE x.t = "none" -> FALSE
      [] x.t = "int" -> x.v # 0
      [] x.t = "str" -> x.v # ""
      [] x.t = "list" -> x.v # <<>>

MaxBatch == 2
MaxPixels == 2

LineItems == {111, 222}
PixelIds == {5, 9}
PixelStates == {"active", "inactive"}
Pixel == [id : PixelIds, state : PixelStates]

RECURSIVE SeqsUpTo(_, _)
SeqsUpTo(S, n) ==
    IF n = 0 THEN {<<>>}
    ELSE LET shorter == SeqsUpTo(S, n - 1) IN
         shorter \cup {Append(q, x) : q \in {t \in shorter : Len(t) = n - 1}, x \in S}

\* The batches an operator can submit and the pixel arrays the API can hold
\* when the session starts.
Batches == SeqsUpTo(LineItems, MaxBatch)
PixelArrays == SeqsUpTo(Pixel, MaxPixels)

ProfileOf(li) == li + 1000

NoRun == [pid |-> 0, fetched |-> <<>>, body |-> <<>>]

Max(a, b) == IF a >= b THEN a ELSE b
Min(a, b) == IF a <= b THEN a ELSE b

\* Text inputs of the forms, and what str.isdigit and int make of them.
\* The operator asks for pixel 5; the API's arrays hold pixels 5 and 9.
IdInputs == {"", "abc", "5"}
IsDigit(s) == s \in {"5", "9"}
ToInt(s) == IF s = "5" THEN 5 ELSE 9

(***************************************************************************)
(*     tenacity: @retry(stop=stop_after_attempt(3),                        *)
(*                      wait=wait_exponential(multiplier=1, min=2, max=10))*)
(* The default retry condition is retry_if_exception_type(): an attempt    *)
(* is repeated only when the wrapped function RAISES; a returned value,    *)
(* False included, ends the call.  With reraise left at False the wrapper  *)
(* raises RetryError once the stop condition holds.                        *)
(***************************************************************************)
stop_max_attempt_number == 3
wait_multiplier == 1
wait_min == 2
wait_max == 10

\* A variant without the lower limit min.
wait_exponential_NoFloor(attempt_number) ==
    Min(wait_multiplier * 2 ^ (attempt_number - 1), wait_max)

\* wait_exponential.__call__ after the attempt numbered attempt_number, as
\* current tenacity releases compute it: exp_base ** (attempt_number - 1).
wait_exponential(attempt_number) ==
    Max(Max(0, wait_min),
        Min(wait_multiplier * 2 ^ (attempt_number - 1), wait_max))

\* The same in early tenacity releases: exp_base ** attempt_number.
wait_exponential_early(attempt_number) ==
    Max(Max(0, wait_min),
        Min(wait_multiplier * 2 ^ attempt_number, wait_max))

\* The program pins no tenacity release: the delay slept after an attempt
\* is the one either release computes.
BackoffDelays(attempt_number) ==
    {wait_exponential(attempt_number), wait_exponential_early(attempt_number)}

\* A variant that also retries when the body returns False.
RetryDecision_RetriesOnFalse(how, value, attempt_number) ==
    IF how = "return" /\ value = TRUE THEN "return"
    ELSE IF attempt_number >= stop_max_attempt_number
         THEN (IF how = "return" THEN "return" ELSE "RetryError")
         ELSE "retry"

\* A variant without the stop condition.
RetryDecision_NeverStops(how, value, attempt_number) ==
    IF how = "return" THEN "return" ELSE "retry"

\* What the wrapper does after an attempt: how is "return" or "raise".
RetryDecision(how, value, attempt_number) ==
    IF how = "return" THEN "return"
    ELSE IF attempt_number >= stop_max_attempt_number THEN "RetryError"
    ELSE "retry"

(***************************************************************************)
(*                        Session: login and logout                        *)
(***************************************************************************)
\* Answers to POST /auth (lines 194-208):
\*   token      : the response carries a non-empty token
\*   emptytoken : the response carries a falsy token
\*   notoken    : 'response' or 'token' is missing
\*   transport  : RequestException
\*   raise      : json() raised ValueError, which authenticate does not catch
AuthAnswers == {"token", "emptytoken", "notoken", "transport", "raise"}
CredentialInputs == {"", "alice"}

authenticate(ans) ==
    IF ans = "token" THEN PyStr("tok")
    ELSE IF ans = "emptytoken" THEN PyStr("")
    ELSE PyNone

\* A variant that authenticates without the test of line 309.
LoginToken_SkipsInputTest(u, p, ans) ==
    IF ans # "raise" /\ Truthy(authenticate(ans))
       THEN authenticate(ans)
       ELSE PyNone

\* Lines 308-319: the token the session stores for the given form inputs
\* and answer of the API, or PyNone when the login fails.
LoginToken(u, p, ans) ==
    IF u # "" /\ p # "" /\ ans # "raise" /\ Truthy(authenticate(ans))
       THEN authenticate(ans)
       ELSE PyNone

\* Lines 308-319: the message the login section shows; none when
\* authenticate raised and the script run ended there.
LoginMessage(u, p, ans) ==
    IF u = "" \/ p = "" THEN "Please enter both username and password"
    ELSE IF ans = "raise" THEN ""
    ELSE IF Truthy(authenticate(ans)) THEN "Logged in successfully"
    ELSE "Login failed"

\* Lines 302-319: a script run with the "Log In" button pressed.
Login ==
    /\ pc = "idle"
    /\ tool = "none"
    /\ ~Truthy(api_token)
    /\ \E u \in CredentialInputs :
         LET results == {<<LoginToken(u, p, ans), LoginMessage(u, p, ans)>> :
                            p \in CredentialInputs, ans \in AuthAnswers} IN
         \E result \in results :
            /\ sidebar' = result[2]
            /\ IF Truthy(result[1])
                  THEN /\ api_token' = result[1]
                       /\ username' = PyStr(u)
                  ELSE UNCHANGED <<api_token, username>>
    /\ UNCHANGED <<callVars, batchVars, reportVars, cityVars>>

\* Lines 295-301: a script run with the "Log Out" button pressed.  The
\* button is there whenever a token is held; pressed while a batch is in
\* flight, Streamlit stops that script run and runs the script anew, so
\* the batch ends where it is before lines 299-300 clear the session.
Logout ==
    /\ Truthy(api_token)
    /\ api_token' = PyNone
    /\ username' = PyNone
    /\ sidebar' = "You have been logged out"
    /\ pc' = "idle"
    /\ batchEnd' = IF pc = "idle" THEN batchEnd ELSE "interrupted"
    /\ UNCHANGED <<tool, line_item_ids, idx, pixel_id, city_targets, remote,
                   lastRun, prevRun, reports, profilePuts>>
    /\ UNCHANGED <<callVars, reportVars, cityVars>>

\* A variant of the tabs' guard that shows the tool to everyone.
ToolAvailable_Always(token) == TRUE

\* Lines 330-332 / 410-412: the tool is rendered unless the token is None.
ToolAvailable(token) == token # PyNone

(***************************************************************************)
(*                     Resolvers used by the two tools                     *)
(***************************************************************************)
\* Answers to a resolver's GET through make_api_request:
\*   transport, badjson : make_api_request returns None
\*   falsy              : valid but falsy JSON
\*   shape              : the expected top-level keys are missing
\*   raise              : the keys below the validated ones are missing
\*                        (KeyError / TypeError, not caught)
\* and, per resolver, the answers that carry data.
ResolverFailures == {"transport", "badjson", "falsy", "shape"}
CityAnswers == ResolverFailures \cup {"raise", "ok"}
IoAnswers == ResolverFailures \cup {"empty", "raise", "list"}
ProfileAnswers == ResolverFailures \cup {"null", "raise", "found"}

resolver_ui(ans, text) ==
    IF ans = "shape" THEN <<UiMsg("error", text)>> ELSE make_api_request_ui(ans)

resolver_log(ans) ==
    IF ans = "shape" THEN <<LogRec("error", "Unexpected API response")>>
    ELSE make_api_request_log(ans)

(***************************************************************************)
(* get_cities_for_country (lines 32-63).  A string is a sequence of        *)
(* characters, so that str.strip and str.lower are computed.               *)
(***************************************************************************)
MaxCities == 2

\* str.lower on one character.
LowerChar(c) ==
    IF c = "S" THEN "s"
    ELSE IF c = "E" THEN "e"
    ELSE IF c = "N" THEN "n"
    ELSE c

str_lower(str) == [i \in 1..Len(str) |-> LowerChar(str[i])]

IsSpace(c) == c = " "

RECURSIVE str_lstrip(_)
str_lstrip(str) ==
    IF str # <<>> /\ IsSpace(Head(str)) THEN str_lstrip(Tail(str)) ELSE str

RECURSIVE str_rstrip(_)
str_rstrip(str) ==
    IF str # <<>> /\ IsSpace(str[Len(str)])
       THEN str_rstrip(SubSeq(str, 1, Len(str) - 1))
       ELSE str

str_strip(str) == str_rstrip(str_lstrip(str))

\* The country names of the model: those an operator types and those the
\* API holds, with the case and the blanks they may carry.
CountryTexts ==
    { <<>>, <<" ">>,
      <<"s", "e">>, <<"S", "E">>, <<" ", "S", "e">>, <<"s", "e", " ">>,
      <<"s", " ", "e">>, <<"n", "o">> }

\* A city of a well-formed answer carries id, name and country_name.
City == [id : {7}, name : {"Stockholm"}, country_name : CountryTexts]
           \cup [id : {8}, name : {"Oslo"}, country_name : CountryTexts]

CityLists == SeqsUpTo(City, MaxCities)

\* Variants of the test of line 56: without lower(), without strip().
CityMatches_CaseSensitive(city, country) ==
    str_strip(city.country_name) = str_strip(country)

CityMatches_Untrimmed(city, country) ==
    str_lower(city.country_name) = str_lower(country)

\* Line 56.
CityMatches(city, country) ==
    str_lower(str_strip(city.country_name)) = str_lower(str_strip(country))

\* Lines 53-57: the list comprehension.
filtered_data(cities, country) ==
    LET kept == SelectSeq(cities, LAMBDA city : CityMatches(city, country)) IN
    [i \in 1..Len(kept) |-> [id |-> kept[i].id, name |-> kept[i].name]]

\* Lines 59-61: what the function returns when no city is kept.
EmptyResult == PyNone

\* Lines 43-63: the value returned for an answer of the given class; for
\* the class "ok" cities is the list the answer carries.
get_cities_for_country(ans, cities, country) ==
    IF ans = "ok"
       THEN IF filtered_data(cities, country) = <<>>
               THEN EmptyResult
               ELSE PyList(filtered_data(cities, country))
       ELSE PyNone

get_cities_for_country_ui(ans, cities, country) ==
    IF ans = "ok"
       THEN IF filtered_data(cities, country) = <<>>
               THEN <<UiMsg("warning", "No active cities found for country")>>
               ELSE <<>>
       ELSE resolver_ui(ans, "Unexpected API response structure when fetching cities")

get_cities_for_country_log(ans) == resolver_log(ans)

\* Lines 43-50: the GET on /city and the checks on its answer.
CityFetch ==
    /\ cpc = "called"
    /\ \E ans \in CityAnswers :
         /\ city_answer' = ans
         /\ city_ui' = resolver_ui(ans, "Unexpected API response structure when fetching cities")
         /\ city_log' = get_cities_for_country_log(ans)
         /\ IF ans = "ok"
               THEN /\ cpc' = "filter"
                    /\ UNCHANGED city_result
               ELSE /\ cpc' = IF ans = "raise" THEN "raised" ELSE "returned"
                    /\ city_result' = get_cities_for_country(ans, cities_data, country_name)
    /\ UNCHANGED <<country_name, cities_data>>
    /\ UNCHANGED <<sessionVars, callVars, batchVars, reportVars>>

\* Lines 52-63: the filter and the return.
CityFilter ==
    /\ cpc = "filter"
    /\ cpc' = "returned"
    /\ city_result' = get_cities_for_country(city_answer, cities_data, country_name)
    /\ city_ui' = city_ui \o get_cities_for_country_ui(city_answer, cities_data, country_name)
    /\ UNCHANGED <<country_name, cities_data, city_answer, city_log>>
    /\ UNCHANGED <<sessionVars, callVars, batchVars, reportVars>>

\* Lines 158-173.
get_line_item_ids_from_io(ans, ids) ==
    IF ans = "list" THEN PyList(ids)
    ELSE IF ans = "empty" THEN PyList(<<>>)
    ELSE PyNone

\* Lines 175-189.
get_profile_id_for_line_item(ans, li) ==
    IF ans = "found" THEN PyInt(ProfileOf(li))
    ELSE PyNone

(***************************************************************************)
(*                 The batch loops (lines 395-405, 476-486)                *)
(***************************************************************************)
CurrentItem == line_item_ids[idx]

\* The loop body ends for the current item with banner b; the for loop
\* moves to the next id or ends.
FinishItem(b, first) ==
    /\ reports' = Append(reports, [id |-> CurrentItem, banner |-> b])
    /\ idx' = idx + 1
    /\ IF idx < Len(line_item_ids)
          THEN pc' = first /\ batchEnd' = batchEnd
          ELSE pc' = "idle" /\ batchEnd' = "completed"

\* An exception leaves the loop body: nothing catches it, the script run
\* ends there.
AbortRun ==
    /\ pc' = "idle"
    /\ batchEnd' = "raised"
    /\ UNCHANGED <<reports, idx>>

\* A script run that ends before the loop (st.stop() or an exception).
EndBeforeLoop(t, how, ui, log) ==
    /\ tool' = t
    /\ pc' = "idle"
    /\ batchEnd' = how
    /\ cui' = ui
    /\ clog' = log
    /\ UNCHANGED <<line_item_ids, idx>>

StartLoop(t, ids, first) ==
    /\ tool' = t
    /\ line_item_ids' = ids
    /\ idx' = 1
    /\ cui' = <<>>
    /\ clog' = <<>>
    /\ IF ids = <<>>
          THEN pc' = "idle" /\ batchEnd' = "completed"
          ELSE pc' = first /\ batchEnd' = "none"

\* Lines 379-392 / 456-473: the ids the loop will visit, or how the run
\* ends without visiting any.  src is "typed" (the text area is filled),
\* "io" (only the insertion order id is) or "none".
LineItemSource(src, typed, io_input, ioAns, checks_io_digits) ==
    LET found == get_line_item_ids_from_io(ioAns, typed) IN
    IF src = "typed"
       THEN [end |-> "loop", ids |-> typed, ui |-> <<>>, log |-> <<>>]
    ELSE IF src = "none"
       THEN [end |-> "stopped", ids |-> <<>>, log |-> <<>>,
             ui |-> <<UiMsg("error", "Either Line Item IDs or an Insertion Order ID is required")>>]
    ELSE IF ~IsDigit(io_input)
       THEN IF checks_io_digits
               THEN [end |-> "stopped", ids |-> <<>>, log |-> <<>>,
                     ui |-> <<UiMsg("error", "Insertion Order ID must be a numeric value")>>]
               ELSE [end |-> "raised", ids |-> <<>>, ui |-> <<>>, log |-> <<>>]
    ELSE IF ioAns = "raise"
       THEN [end |-> "raised", ids |-> <<>>, ui |-> <<>>, log |-> <<>>]
    ELSE IF ~Truthy(found)
       THEN [end |-> "stopped", ids |-> <<>>, log |-> resolver_log(ioAns),
             ui |-> resolver_ui(ioAns, "Unexpected API response structure for insertion order")
                    \o <<UiMsg("error", "No line items found for the provided Insertion Order ID")>>]
    ELSE [end |-> "loop", ids |-> found.v, ui |-> <<>>, log |-> resolver_log(ioAns)]

LineItemSources(checks_io_digits) ==
    {LineItemSource(src, ids, io_input, ioAns, checks_io_digits) :
        src \in {"typed", "io", "none"}, ids \in Batches,
        io_input \in {"abc", "5"}, ioAns \in IoAnswers}

(***************************************************************************)
(*                 Tab 1: the geo targeting updater                        *)
(***************************************************************************)
\* Lines 347-392: what a script run with "Update Geo Targeting" pressed does
\* before the loop, for given inputs and API answers: how it ends ("loop"
\* when the loop is entered), the ids, the city targets and the messages.
\* A variant of the test of line 360 that lets every resolution pass.
CityTargetsUsable_Always(targets) == TRUE

\* Line 360: "if not city_targets" stops the run.
CityTargetsUsable(targets) == Truthy(targets)

GeoRun(country, city_names, cityAns, cities, source) ==
    LET targets == get_cities_for_country(cityAns, cities, country) IN
    IF str_strip(country) = <<>>
       THEN [end |-> "stopped", ids |-> <<>>, targets |-> PyNone,
             ui |-> <<UiMsg("error", "Country Name is required")>>, log |-> <<>>]
    ELSE IF city_names = <<>>
       THEN [end |-> "stopped", ids |-> <<>>, targets |-> PyNone,
             ui |-> <<UiMsg("error", "Please provide at least one city name")>>,
             log |-> <<>>]
    ELSE IF cityAns = "raise"
       THEN [end |-> "raised", ids |-> <<>>, targets |-> PyNone,
             ui |-> <<>>, log |-> <<>>]
    ELSE IF ~CityTargetsUsable(targets)
       THEN [end |-> "stopped", ids |-> <<>>, targets |-> targets,
             ui |-> get_cities_for_country_ui(cityAns, cities, country)
                    \o <<UiMsg("error", "No valid city targets found")>>,
             log |-> get_cities_for_country_log(cityAns)]
    ELSE [end |-> source.end, ids |-> source.ids, targets |-> targets,
          ui |-> source.ui, log |-> source.log]

\* What the operator types as country and what the API lists in a geo run.
GeoCountryInputs == {<<" ">>, <<" ", "S", "e">>}
GeoCityLists ==
    { <<>>,
      <<[id |-> 8, name |-> "Oslo", country_name |-> <<"n", "o">>]>>,
      <<[id |-> 8, name |-> "Oslo", country_name |-> <<"n", "o">>],
        [id |-> 7, name |-> "Stockholm", country_name |-> <<"s", "e", " ">>]>> }

GeoRuns ==
    {GeoRun(country, city_names, cityAns, cities, source) :
        country \in GeoCountryInputs, city_names \in {<<>>, <<"Stockholm">>},
        cityAns \in CityAnswers, cities \in GeoCityLists,
        source \in LineItemSources(FALSE)}

GeoClick ==
    /\ pc = "idle"
    /\ tool = "none"
    /\ ToolAvailable(api_token)
    /\ \E run \in GeoRuns :
         /\ city_targets' = run.targets
         /\ IF run.end = "loop"
               THEN StartLoop("geo", run.ids, "lookup")
               ELSE EndBeforeLoop("geo", run.end, run.ui, run.log)
    /\ UNCHANGED <<pixel_id, remote, lastRun, prevRun, reports, profilePuts>>
    /\ UNCHANGED <<profile_id, attempt, hist, ret, waits, fetched, body>>
    /\ sidebar' = ""
    /\ UNCHANGED <<api_token, username, reportVars, cityVars>>

\* Lines 396-399: the profile lookup of the current item.
GeoLookup ==
    /\ tool = "geo"
    /\ pc = "lookup"
    /\ \E ans \in ProfileAnswers :
         LET pid == get_profile_id_for_line_item(ans, CurrentItem) IN
         /\ hist' = <<>>
         /\ ret' = "none"
         /\ waits' = <<>>
         /\ attempt' = 1
         /\ clog' = resolver_log(ans)
         /\ IF ans = "raise"
               THEN /\ AbortRun
                    /\ cui' = <<>>
                    /\ profile_id' = PyNone
            ELSE IF ~Truthy(pid)
               THEN /\ FinishItem("no_profile", "lookup")
                    /\ cui' = resolver_ui(ans, "Unexpected API response structure for line item")
                              \o <<UiMsg("error", "Profile ID not found")>>
                    /\ profile_id' = pid
            ELSE /\ pc' = "call"
                 /\ cui' = <<>>
                 /\ profile_id' = pid
                 /\ UNCHANGED <<reports, idx, batchEnd>>
    /\ UNCHANGED <<tool, line_item_ids, pixel_id, city_targets, remote, lastRun,
                   prevRun, profilePuts, fetched, body>>
    /\ UNCHANGED <<sessionVars, reportVars, cityVars>>

\* Answers to PUT /profile (lines 78-85).
GeoPutAnswers == {"ok", "transport"}

\* Lines 66-85: the value the body of update_line_item_profile_geo returns.
update_line_item_profile_geo(ans) == ans = "ok"

\* Lines 401-405: one attempt of the wrapped update_line_item_profile_geo,
\* what tenacity makes of it, and the banner of the loop.
GeoPut ==
    /\ tool = "geo"
    /\ pc = "call"
    /\ \E ans \in GeoPutAnswers :
         LET success == update_line_item_profile_geo(ans)
             decision == RetryDecision("return", success, attempt)
         IN
         /\ hist' = Append(hist, IF success THEN "put_ok" ELSE "put_transport")
         /\ profilePuts' = Append(profilePuts, CurrentItem)
         /\ IF decision = "retry"
               THEN /\ attempt' = attempt + 1
                    /\ \E delay \in BackoffDelays(attempt) :
                           waits' = Append(waits, delay)
                    /\ cui' = IF success THEN cui
                              ELSE Append(cui, UiMsg("error", "Error updating geo targeting"))
                    /\ clog' = IF success THEN clog
                               ELSE Append(clog, LogRec("error", "Error updating geo targeting"))
                    /\ UNCHANGED <<ret, pc, reports, idx, batchEnd>>
               ELSE /\ ret' = IF success THEN "True" ELSE "False"
                    /\ attempt' = attempt
                    /\ waits' = waits
                    /\ cui' = IF success
                                 THEN Append(cui, UiMsg("success", "Geo targeting updated"))
                                 ELSE cui \o <<UiMsg("error", "Error updating geo targeting"),
                                               UiMsg("error", "Failed to update geo targeting")>>
                    /\ clog' = IF success THEN clog
                               ELSE Append(clog, LogRec("error", "Error updating geo targeting"))
                    /\ FinishItem(IF success THEN "success" ELSE "failed", "lookup")
    /\ UNCHANGED <<tool, line_item_ids, pixel_id, city_targets, remote, lastRun,
                   prevRun, profile_id, fetched, body>>
    /\ UNCHANGED <<sessionVars, reportVars, cityVars>>

(***************************************************************************)
(*                 Tab 2: the conversion pixel updater                     *)
(***************************************************************************)
\* Lines 438-473: what a script run with "Update Conversion Pixels" pressed
\* does before the loop.
PixelRun(advertiser, pixel_input, source) ==
    IF advertiser = "" \/ ~IsDigit(advertiser)
       THEN [end |-> "stopped", ids |-> <<>>, pixel |-> 0, log |-> <<>>,
             ui |-> <<UiMsg("error", "Advertiser ID is required / must be numeric")>>]
    ELSE IF pixel_input = "" \/ ~IsDigit(pixel_input)
       THEN [end |-> "stopped", ids |-> <<>>, pixel |-> 0, log |-> <<>>,
             ui |-> <<UiMsg("error", "Conversion Pixel ID is required / must be numeric")>>]
    ELSE [end |-> source.end, ids |-> source.ids, pixel |-> ToInt(pixel_input),
          ui |-> source.ui, log |-> source.log]

PixelRuns ==
    {PixelRun(advertiser, pixel_input, source) :
        advertiser \in IdInputs, pixel_input \in IdInputs,
        source \in LineItemSources(TRUE)}

PixelClick ==
    /\ pc = "idle"
    /\ tool = "none"
    /\ ToolAvailable(api_token)
    /\ \E run \in PixelRuns :
         /\ pixel_id' = run.pixel
         /\ IF run.end = "loop"
               THEN StartLoop("pixel", run.ids, "call")
               ELSE EndBeforeLoop("pixel", run.end, run.ui, run.log)
    /\ UNCHANGED <<city_targets, remote, lastRun, prevRun, reports, profilePuts>>
    /\ UNCHANGED <<profile_id, attempt, hist, ret, waits, fetched, body>>
    /\ sidebar' = ""
    /\ UNCHANGED <<api_token, username, reportVars, cityVars>>

\* Lines 116-130: the by-id upsert on the fetched array.
FirstMatch(pixels, pid) ==
    IF \E i \in 1..Len(pixels) : pixels[i].id = pid
       THEN CHOOSE i \in 1..Len(pixels) :
                /\ pixels[i].id = pid
                /\ \A j \in 1..(i - 1) : pixels[j].id # pid
       ELSE 0

\* Variants of the upsert: one that never looks for a match, one that
\* appends unless the match is already active.
Upsert_AlwaysAppends(pixels, pid) ==
    Append(pixels, [id |-> pid, state |-> "active"])

Upsert_AppendsWhenInactive(pixels, pid) ==
    LET m == FirstMatch(pixels, pid) IN
    IF m > 0 /\ pixels[m].state = "active"
       THEN pixels
       ELSE Append(pixels, [id |-> pid, state |-> "active"])

\* A variant that activates every entry of the array.
Upsert_ActivatesAll(pixels, pid) ==
    LET all == [i \in 1..Len(pixels) |-> [pixels[i] EXCEPT !.state = "active"]] IN
    IF FirstMatch(pixels, pid) > 0
       THEN all
       ELSE Append(all, [id |-> pid, state |-> "active"])

\* Lines 116-130.
Upsert(pixels, pid) ==
    LET m == FirstMatch(pixels, pid) IN
    IF m > 0
       THEN [pixels EXCEPT ![m].state = "active"]
       ELSE Append(pixels, [id |-> pid, state |-> "active"])

\* Answers to GET /line-item inside update_conversion_pixel (lines 97-114):
\*   transport : RequestException (network, non-2xx)
\*   shape     : 'response' or 'line-item' is missing
\*   raise     : an exception that is no RequestException leaves the body,
\*               e.g. "pixels": null makes the for loop raise TypeError
\*   ok        : the line item with its pixel array
PixelGetAnswers == {"transport", "shape", "raise", "ok"}

\* Answers to PUT /line-item (lines 144-156):
\*   ok             : 2xx with a JSON body
\*   transport      : RequestException, the API applied nothing
\*   badbody_caught : 2xx, update_response.json() raised a RequestException
\*   badbody_raised : 2xx, update_response.json() raised a plain ValueError
PixelPutAnswers == {"ok", "transport", "badbody_caught", "badbody_raised"}

\* The previous invocation has ended: this attempt opens a new one.
NewInvocation == ret # "none"
CurHist == IF NewInvocation THEN <<>> ELSE hist
CurWaits == IF NewInvocation THEN <<>> ELSE waits
CurUi == IF NewInvocation THEN <<>> ELSE cui
CurLog == IF NewInvocation THEN <<>> ELSE clog

\* The wrapped call ends (value or RetryError) or tenacity sleeps and
\* calls the body again; then lines 483-486.
AfterAttempt(how, success, entry, ui, log) ==
    LET decision == RetryDecision(how, success, attempt) IN
    /\ hist' = Append(CurHist, entry)
    /\ clog' = (CurLog \o log)
    /\ CASE decision = "retry" ->
              /\ attempt' = attempt + 1
              /\ \E delay \in BackoffDelays(attempt) :
                     waits' = Append(CurWaits, delay)
              /\ ret' = "none"
              /\ cui' = (CurUi \o ui)
              /\ pc' = "call"
              /\ UNCHANGED <<reports, idx, batchEnd>>
         [] decision = "RetryError" ->
              /\ attempt' = 1
              /\ waits' = CurWaits
              /\ ret' = "RetryError"
              /\ cui' = (CurUi \o ui)
              /\ AbortRun
         [] OTHER ->
              /\ attempt' = 1
              /\ waits' = CurWaits
              /\ ret' = IF success THEN "True" ELSE "False"
              /\ cui' = (CurUi \o ui) \o
                    (IF success
                        THEN <<UiMsg("success", "Conversion pixel updated")>>
                        ELSE <<UiMsg("error", "Failed to update conversion pixel")>>)
              /\ FinishItem(IF success THEN "success" ELSE "failed", "call")

\* Lines 93-130: the GET of one attempt and the upsert.
PixelGet ==
    /\ tool = "pixel"
    /\ pc = "call"
    /\ \E ans \in PixelGetAnswers :
         CASE ans = "ok" ->
                /\ fetched' = remote[CurrentItem]
                /\ body' = Upsert(remote[CurrentItem], pixel_id)
                /\ hist' = Append(CurHist, "get_ok")
                /\ waits' = CurWaits
                /\ ret' = "none"
                /\ cui' = CurUi
                /\ clog' = CurLog \o <<LogRec("info", "GET Request URL"),
                                       LogRec("info", "GET Response"),
                                       LogRec("info", "Existing Pixels")>>
                /\ pc' = "put"
                /\ UNCHANGED <<attempt, reports, idx, batchEnd>>
           [] ans = "transport" ->
                /\ AfterAttempt("return", FALSE, "get_transport",
                       <<UiMsg("error", "Error updating conversion pixel")>>,
                       <<LogRec("info", "GET Request URL"),
                         LogRec("error", "Error updating conversion pixel")>>)
                /\ UNCHANGED <<fetched, body>>
           [] ans = "shape" ->
                /\ AfterAttempt("return", FALSE, "get_shape",
                       <<UiMsg("error", "Unexpected API response structure")>>,
                       <<LogRec("info", "GET Request URL"),
                         LogRec("info", "GET Response"),
                         LogRec("error", "Unexpected API response")>>)
                /\ UNCHANGED <<fetched, body>>
           [] ans = "raise" ->
                /\ AfterAttempt("raise", FALSE, "get_raise", <<>>,
                       <<LogRec("info", "GET Request URL"),
                         LogRec("info", "GET Response"),
                         LogRec("info", "Existing Pixels")>>)
                /\ UNCHANGED <<fetched, body>>
    /\ UNCHANGED <<tool, line_item_ids, pixel_id, city_targets, profile_id,
                   remote, lastRun, prevRun, profilePuts>>
    /\ UNCHANGED <<sessionVars, reportVars, cityVars>>

\* The API applies a PUT it answers with 2xx: the array is replaced whole.
Applied(ans) == ans # "transport"

\* Lines 132-156: the PUT of the attempt.
PixelPut ==
    /\ tool = "pixel"
    /\ pc = "put"
    /\ \E ans \in PixelPutAnswers :
         /\ IF Applied(ans)
               THEN /\ remote' = [remote EXCEPT ![CurrentItem] = body]
                    /\ prevRun' = lastRun[CurrentItem]
                    /\ lastRun' = [lastRun EXCEPT ![CurrentItem] =
                                     [pid |-> pixel_id, fetched |-> fetched, body |-> body]]
               ELSE UNCHANGED <<remote, prevRun, lastRun>>
         /\ CASE ans = "ok" ->
                  AfterAttempt("return", TRUE, "put_ok", <<>>,
                      <<LogRec("info", "PUT Request URL"),
                        LogRec("info", "PUT Request Payload"),
                        LogRec("info", "PUT Response")>>)
              [] ans = "badbody_raised" ->
                  AfterAttempt("raise", FALSE, "put_badbody_raised", <<>>,
                      <<LogRec("info", "PUT Request URL"),
                        LogRec("info", "PUT Request Payload")>>)
              [] OTHER ->
                  AfterAttempt("return", FALSE,
                      IF ans = "transport" THEN "put_transport" ELSE "put_badbody_caught",
                      <<UiMsg("error", "Error updating conversion pixel")>>,
                      <<LogRec("info", "PUT Request URL"),
                        LogRec("info", "PUT Request Payload"),
                        LogRec("error", "Error updating conversion pixel")>>)
    /\ UNCHANGED <<tool, line_item_ids, pixel_id, city_targets, profile_id,
                   fetched, body, profilePuts>>
    /\ UNCHANGED <<sessionVars, reportVars, cityVars>>

(***************************************************************************)
(*                            Specifications                               *)
(***************************************************************************)
\* The console never calls generate_and_poll_report (the reporting tab is
\* excluded, lines 321-325).
ReportNotCalled ==
    /\ rpc = "not_called"
    /\ post = "none"
    /\ retries = 0
    /\ polled = <<>>
    /\ sleeps = 0
    /\ downloads = 0
    /\ outcome = "none"
    /\ dl = "none"
    /\ artifact = FALSE
    /\ rui = <<>>
    /\ rlog = <<>>

\* Lines 285-289, before any button is pressed.  Every line item starts
\* with the same pixel array, any array of at most MaxPixels entries.
SessionInit ==
    /\ api_token = PyNone
    /\ username = PyNone
    /\ sidebar = ""
    /\ tool = "none"
    /\ pc = "idle"
    /\ batchEnd = "none"
    /\ line_item_ids = <<>>
    /\ idx = 0
    /\ pixel_id = 0
    /\ city_targets = PyNone
    /\ profile_id = PyNone
    /\ attempt = 1
    /\ hist = <<>>
    /\ ret = "none"
    /\ waits = <<>>
    /\ cui = <<>>
    /\ clog = <<>>
    /\ fetched = <<>>
    /\ body = <<>>
    /\ lastRun = [li \in LineItems |-> NoRun]
    /\ prevRun = NoRun
    /\ reports = <<>>
    /\ profilePuts = <<>>

\* get_cities_for_country has not been called on its own.
CitiesNotCalled ==
    /\ cpc = "not_called"
    /\ country_name = <<>>
    /\ cities_data = <<>>
    /\ city_answer = "none"
    /\ city_result = PyNone
    /\ city_ui = <<>>
    /\ city_log = <<>>

Init ==
    /\ SessionInit
    /\ \E a \in PixelArrays : remote = [li \in LineItems |-> a]
    /\ ReportNotCalled
    /\ CitiesNotCalled

\* A console session up to the end of its first batch: logins and logouts,
\* then one script run of either tool, followed to its end.
Next ==
    \/ Login
    \/ Logout
    \/ GeoClick
    \/ GeoLookup
    \/ GeoPut
    \/ PixelClick
    \/ PixelGet
    \/ PixelPut

Spec == Init /\ [][Next]_vars

\* A call of generate_and_poll_report on its own.
ReportInit ==
    /\ rpc = "requested"
    /\ post = "none"
    /\ retries = 0
    /\ polled = <<>>
    /\ sleeps = 0
    /\ downloads = 0
    /\ outcome = "none"
    /\ dl = "none"
    /\ artifact = FALSE
    /\ rui = <<>>
    /\ rlog = <<>>
    /\ SessionInit
    /\ remote = [li \in LineItems |-> <<>>]
    /\ CitiesNotCalled

ReportNext ==
    \/ ReportPost
    \/ ReportPoll
    \/ ReportSleep
    \/ ReportDownload

SpecReport == ReportInit /\ [][ReportNext]_vars

\* A call of get_cities_for_country on its own, for every country name and
\* every list of at most MaxCities cities the API may answer with.
CitiesInit ==
    /\ cpc = "called"
    /\ country_name \in CountryTexts
    /\ cities_data \in CityLists
    /\ city_answer = "none"
    /\ city_result = PyNone
    /\ city_ui = <<>>
    /\ city_log = <<>>
    /\ SessionInit
    /\ remote = [li \in LineItems |-> <<>>]
    /\ ReportNotCalled

CitiesNext ==
    \/ CityFetch
    \/ CityFilter

SpecCities == CitiesInit /\ [][CitiesNext]_vars

(***************************************************************************)
(*              Properties of generate_and_poll_report                     *)
(***************************************************************************)
EnteredPolling == post = "ok"
LeftPolling == EnteredPolling /\ rpc \in {"download", "done"}
NoTerminalStatusSeen == \A i \in 1..Len(polled) : polled[i] \notin {"ready", "error"}
EveryPollAnswered == \A i \in 1..Len(polled) : polled[i] # "raise"

\* C3 (as stated): if no status poll ever returns "ready" or "error", the
\* run ends TimedOut after exactly 10 status GETs and without a download.
C3_Original ==
    (rpc = "done" /\ EnteredPolling /\ NoTerminalStatusSeen)
        => /\ outcome = "TimedOut"
           /\ Len(polled) = 10
           /\ downloads = 0

\* C3 (amended): if every status GET is answered (none raises) and none of
\* the answers is "ready" or "error", the run ends TimedOut after exactly
\* 10 status GETs and no download GET is issued.
C3_TimedOutAfterTenPolls ==
    (rpc = "done" /\ EnteredPolling /\ NoTerminalStatusSeen /\ EveryPollAnswered)
        => /\ outcome = "TimedOut"
           /\ Len(polled) = 10
           /\ retries = max_retries
           /\ downloads = 0
           /\ dl = "none"

C3_Witness ==
    /\ rpc = "done"
    /\ outcome = "TimedOut"
    /\ Len(polled) = 10
    /\ NoTerminalStatusSeen
    /\ EveryPollAnswered

\* C4: the first status poll that reports "error" ends the run with a
\* failure; no status GET and no download GET follows it.
C4_ErrorEndsRun ==
    \A i \in 1..Len(polled) :
        polled[i] = "error"
            => /\ i = Len(polled)
               /\ rpc = "done"
               /\ outcome = "Errored"
               /\ downloads = 0
               /\ ~artifact

C4_Witness ==
    /\ Len(polled) >= 3
    /\ Last(polled) = "error"
    /\ rpc = "done"

\* C5 (as stated): once Polling has been entered the run leaves it in
\* exactly one of the three ways Ready, Errored, TimedOut.
C5_Original ==
    LeftPolling
        => \/ outcome = "Ready" /\ Last(polled) = "ready"
           \/ outcome = "Errored" /\ Last(polled) = "error"
           \/ outcome = "TimedOut" /\ retries = max_retries

\* C5 (amended): once Polling has been entered the run leaves it in exactly
\* one of four ways: Ready (a poll returned "ready"), Errored (a poll
\* returned "error"), TimedOut (10 attempts consumed) or PollFailed (a
\* status GET raised); and it is in none of them while still polling.
C5_FourWaysOutOfPolling ==
    /\ LeftPolling
         => /\ outcome \in {"Ready", "Errored", "TimedOut", "PollFailed"}
            /\ outcome = "Ready" <=> (polled # <<>> /\ Last(polled) = "ready")
            /\ outcome = "Errored" <=> (polled # <<>> /\ Last(polled) = "error")
            /\ outcome = "PollFailed" <=> (polled # <<>> /\ Last(polled) = "raise")
            /\ outcome = "TimedOut"
                 <=> (retries = max_retries /\ Len(polled) = max_retries
                      /\ Last(polled) \in {"pending", "none"})
    /\ (EnteredPolling /\ rpc \in {"polling", "sleeping"}) => outcome = "none"

C5_Witness ==
    /\ LeftPolling
    /\ outcome = "PollFailed"
    /\ Len(polled) = 2

\* C6: the statuses the orchestrator observes are a run of non-terminal
\* ones followed by at most one "ready" or "error": once a status GET has
\* returned "ready" or "error" no further status GET is issued.
C6_PollingStopsAtFirstTerminalStatus ==
    /\ \A i \in 1..Len(polled) :
           polled[i] \in {"ready", "error"}
               => i = Len(polled) /\ rpc \notin {"polling", "sleeping"}
    /\ \A i \in 1..(Len(polled) - 1) : polled[i] \in {"pending", "none"}

C6_Witness ==
    /\ Len(polled) >= 2
    /\ Last(polled) = "ready"
    /\ rpc = "done"

\* C7: if the report-creation POST fails or its answer carries no
\* report_id, the run ends at once with a failure: no status GET and no
\* download GET is ever issued.  (An answer that is no JSON object carries
\* no report_id either; there the run ends with the AttributeError.)
C7_NoPollingWithoutReportId ==
    /\ post \in {"transport", "badjson", "falsy", "noid", "nondict"}
         => /\ rpc = "done"
            /\ outcome \in {"CreateFailed", "NoReportId", "Raised"}
            /\ polled = <<>>
            /\ sleeps = 0
            /\ downloads = 0
            /\ ~artifact
    /\ post \in {"transport", "badjson", "falsy", "noid"}
         => /\ outcome \in {"CreateFailed", "NoReportId"}
            /\ Last(rui)[1] = "error"

C7_Witness ==
    /\ post = "noid"
    /\ rpc = "done"
    /\ outcome = "NoReportId"

\* C8: the download GET is issued only after a status poll returned
\* "ready", and at most once per run; a failed download ends the run, is
\* reported, and no artifact is offered.
C8_DownloadOnceAfterReady ==
    /\ downloads <= 1
    /\ downloads = 1 => (polled # <<>> /\ Last(polled) = "ready" /\ outcome = "Ready")
    /\ dl = "failed"
         => /\ rpc = "done"
            /\ ~artifact
            /\ Last(rui) = UiMsg("error", "An error occurred while downloading the report")
    /\ artifact => dl = "ok"

C8_Witness ==
    /\ dl = "failed"
    /\ downloads = 1
    /\ rpc = "done"

\* The run has ended in one of its failing outcomes.
ReportFailed ==
    /\ rpc = "done"
    /\ \/ outcome \in {"CreateFailed", "NoReportId", "Errored", "TimedOut"}
       \/ dl = "failed"

ErrorShown(ui) == \E i \in 1..Len(ui) : ui[i][1] = "error"

\* C19: every failure path of generate_and_poll_report (creation failure,
\* missing report_id, status error, polling timeout, download failure)
\* both writes a log record and shows the operator an error message.
C19_FailuresLoggedAndShown ==
    ReportFailed => (ErrorShown(rui) /\ rlog # <<>>)

\* C20 (as stated): every status other than "ready" / "error" consumes
\* exactly one of the 10 attempts, and every sleep is followed by another
\* status GET: when the run has left polling, more GETs than sleeps were
\* made.
C20_Original ==
    /\ EnteredPolling => retries = sleeps
    /\ (LeftPolling /\ sleeps > 0) => Len(polled) > sleeps

\* The statuses that are neither "ready" nor "error", answered so far.
OtherStatuses == {i \in 1..Len(polled) : polled[i] \in {"pending", "none"}}

\* C20 (amended): every status other than "ready" / "error" consumes
\* exactly one of the 10 attempts and is followed by one 5 time-unit
\* sleep; every sleep but the tenth is followed by another status GET, the
\* tenth is followed by the timeout.
C20_SleepAfterEachOtherStatus ==
    /\ retries = sleeps
    /\ retries <= max_retries
    /\ rpc = "sleeping" => Cardinality(OtherStatuses) = sleeps + 1
    /\ rpc # "sleeping" => Cardinality(OtherStatuses) = sleeps
    /\ rpc = "polling" => Len(polled) = sleeps
    /\ (LeftPolling /\ sleeps > 0)
         => IF outcome = "TimedOut"
               THEN sleeps = max_retries /\ Len(polled) = sleeps
               ELSE sleeps < max_retries /\ Len(polled) = sleeps + 1

C20_Witness ==
    /\ LeftPolling
    /\ outcome = "TimedOut"
    /\ sleeps = 10
    /\ Len(polled) = 10

(***************************************************************************)
(*          Properties of the retrying mutators and the batch loops        *)
(***************************************************************************)
GetEntries == {"get_ok", "get_transport", "get_shape", "get_raise"}
PutEntries == {"put_ok", "put_transport", "put_badbody_caught", "put_badbody_raised"}
AppliedPutEntries == {"put_ok", "put_badbody_caught", "put_badbody_raised"}
TransportFailures == {"get_transport", "put_transport"}

\* Number of times the body of the wrapped function ran in the invocation.
BodyRuns ==
    IF tool = "geo" THEN Len(hist)
    ELSE Cardinality({i \in 1..Len(hist) : hist[i] \in GetEntries})

InvocationReturned == tool \in {"geo", "pixel"} /\ ret \in {"True", "False"}
InvocationEnded == tool \in {"geo", "pixel"} /\ ret \in {"True", "False", "RetryError"}

\* C1: the retrying mutator retries on transport errors: a transport
\* failure of the wrapped HTTP call is followed by another attempt unless
\* it was the third one, so a call that returns the failure made exactly 3
\* attempts (and one that succeeds after two failures made 3 as well).
C1_RetriesOnTransportErrors ==
    InvocationReturned
        => \A i \in 1..Len(hist) :
               hist[i] \in TransportFailures
                   => (i < Len(hist) \/ BodyRuns = stop_max_attempt_number)

\* C2: a failure of the retrying mutator on one line item, whatever its
\* cause, is surfaced as a failure of that item only: the item gets its
\* "failed" banner, the loop goes on with the later ids and the batch is
\* never aborted.
C2_BatchContinuesAfterMutatorFailure ==
    (tool \in {"geo", "pixel"} /\ ret \in {"False", "RetryError"})
        => /\ batchEnd # "raised"
           /\ reports # <<>>
           /\ Last(reports).banner = "failed"
           /\ idx = Len(reports) + 1
           /\ (idx <= Len(line_item_ids) => pc \in {"lookup", "call"})

Count(pixels, pid) == Cardinality({i \in 1..Len(pixels) : pixels[i].id = pid})
NoDuplicateIds(pixels) == \A pid \in PixelIds : Count(pixels, pid) <= 1

\* The current attempt has issued its PUT; body is what it sent.
PutIssued == tool = "pixel" /\ hist # <<>> /\ Last(hist) \in PutEntries

\* The API has applied the PUT of the current attempt, and the array the
\* attempt fetched was itself PUT by an earlier run for the same pixel id.
SecondRun ==
    /\ tool = "pixel"
    /\ hist # <<>>
    /\ Last(hist) \in AppliedPutEntries
    /\ prevRun # NoRun
    /\ prevRun.pid = pixel_id

\* C9 (as stated): a second run for the same line item and pixel id yields
\* the same array as the first, with exactly one entry for that id, active.
C9_Original ==
    SecondRun
        => /\ body = prevRun.body
           /\ Count(body, pixel_id) = 1
           /\ \A i \in 1..Len(body) : body[i].id = pixel_id => body[i].state = "active"

\* C9 (amended): a second run for the same line item and pixel id PUTs the
\* array the first run PUT, unchanged; the first entry for that id is
\* active; and there is exactly one entry for that id whenever the array
\* the first run fetched held at most one.
C9_UpsertIdempotent ==
    SecondRun
        => /\ fetched = prevRun.body
           /\ body = prevRun.body
           /\ Count(body, pixel_id) >= 1
           /\ body[FirstMatch(body, pixel_id)].state = "active"
           /\ Count(prevRun.fetched, pixel_id) <= 1
                => /\ Count(body, pixel_id) = 1
                   /\ \A i \in 1..Len(body) :
                          body[i].id = pixel_id => body[i].state = "active"

C9_Witness ==
    /\ SecondRun
    /\ ret = "True"
    /\ Len(reports) = 2
    /\ reports[1].banner = "success"
    /\ Count(prevRun.fetched, pixel_id) = 0
    /\ Len(body) = 2

\* C10 (as stated): whatever array was fetched, the array PUT back holds
\* no two entries with the same id.
C10_Original == PutIssued => NoDuplicateIds(body)

\* C10 (amended): the update adds no duplicate.  Every id occurs in the
\* array PUT back as often as in the fetched array, except that the
\* requested id occurs once when it was absent; so the array PUT back
\* holds no two entries with the same id whenever the fetched one held none.
C10_UpsertAddsNoDuplicate ==
    PutIssued
        => /\ \A pid \in PixelIds :
                Count(body, pid) =
                    IF pid = pixel_id THEN Max(1, Count(fetched, pid))
                    ELSE Count(fetched, pid)
           /\ NoDuplicateIds(fetched) => NoDuplicateIds(body)

C10_Witness ==
    /\ PutIssued
    /\ fetched # <<>>
    /\ NoDuplicateIds(fetched)
    /\ Count(fetched, pixel_id) = 0
    /\ Len(body) = Len(fetched) + 1

\* C11: the array PUT keeps every fetched entry at its position.  If the
\* requested id is present the array has the fetched length and differs
\* from the fetched one only at the (first) matching entry, whose state is
\* "active"; if it is absent the array is the fetched one followed by one
\* appended entry {id, state: "active"}.
C11_UpsertKeepsEntriesInPlace ==
    PutIssued
        => LET m == FirstMatch(fetched, pixel_id) IN
           IF m > 0
              THEN /\ Len(body) = Len(fetched)
                   /\ \A i \in 1..Len(fetched) : i # m => body[i] = fetched[i]
                   /\ body[m] = [id |-> pixel_id, state |-> "active"]
              ELSE body = fetched \o <<[id |-> pixel_id, state |-> "active"]>>

C11_Witness ==
    /\ PutIssued
    /\ Len(fetched) = 2
    /\ fetched[1].id # pixel_id
    /\ fetched[1].state = "inactive"
    /\ fetched[2] = [id |-> pixel_id, state |-> "inactive"]
    /\ body[2].state = "active"

\* The geo loop has ended, normally or by an exception.
GeoBatchEnded ==
    tool = "geo" /\ pc = "idle" /\ batchEnd \in {"completed", "raised"}

\* C12: for every batch the geo updater issues a PUT on /profile for
\* exactly the line items whose profile lookup returned a profile id, and
\* reports exactly one outcome per line item of the batch, in batch order.
C12_GeoOneOutcomePerItem ==
    GeoBatchEnded
        => /\ Len(reports) = Len(line_item_ids)
           /\ \A i \in 1..Len(reports) : reports[i].id = line_item_ids[i]
           /\ Len(profilePuts) =
                  Cardinality({i \in 1..Len(reports) : reports[i].banner # "no_profile"})

\* C13: a single invocation of a retry-wrapped mutating function never
\* executes its body more than 3 times, whatever failures occur.
C13_AtMostThreeAttempts ==
    tool \in {"geo", "pixel"}
        => /\ BodyRuns <= stop_max_attempt_number
           /\ attempt <= stop_max_attempt_number
           /\ Len(waits) <= stop_max_attempt_number - 1
           /\ ret = "RetryError" => BodyRuns = stop_max_attempt_number

C13_Witness ==
    /\ tool = "pixel"
    /\ BodyRuns = stop_max_attempt_number
    /\ ret = "RetryError"
    /\ Len(waits) = 2

C15_Original ==
    tool \in {"geo", "pixel"}
        => \A j \in 1..Len(waits) : waits[j] = Min(10, 2 * 2 ^ (j - 1))

\* C15 (amended): the delay waited before attempt k (k >= 2) is
\* max(2, min(10, 2^(k-2))) with current tenacity releases, i.e. 2 before
\* the 2nd attempt and 2 before the 3rd; early releases compute
\* max(2, min(10, 2^(k-1))), i.e. 2 and 4.  There is no jitter, and a
\* delay is waited only between two attempts of one invocation.
C15_BackoffDelays ==
    tool \in {"geo", "pixel"}
        => /\ \A j \in 1..Len(waits) :
                  waits[j] \in {Max(2, Min(10, 2 ^ (j - 1))), Max(2, Min(10, 2 ^ j))}
           /\ Len(waits) >= 1 => waits[1] = 2
           /\ Len(waits) >= 2 => waits[2] \in {2, 4}
           /\ Len(waits) <= BodyRuns
           /\ ret = "none" => Len(waits) = attempt - 1

C15_Witness ==
    /\ tool = "pixel"
    /\ attempt = 3
    /\ waits = <<2, 2>>
    /\ BodyRuns = 2

\* C18: update_line_item_profile_geo is never invoked with an empty
\* CityTarget list.  In every geo run a PUT on /profile is issued only when
\* the resolved city list is non-empty, and an empty or failed city
\* resolution ends the run before any line item is processed.
C18_NoGeoPutWithoutCities ==
    tool = "geo"
        => /\ (profilePuts # <<>> \/ pc \in {"lookup", "call"})
                => /\ city_targets.t = "list"
                   /\ Len(city_targets.v) >= 1
           /\ ~Truthy(city_targets)
                => /\ pc = "idle"
                   /\ batchEnd \in {"stopped", "raised"}
                   /\ line_item_ids = <<>>
                   /\ reports = <<>>
                   /\ profilePuts = <<>>
                   /\ hist = <<>>

C18_Witness ==
    /\ tool = "geo"
    /\ Len(profilePuts) = 2
    /\ city_targets = PyList(<<[id |-> 7, name |-> "Stockholm"]>>)
    /\ batchEnd = "completed"

(***************************************************************************)
(*                  Properties of get_cities_for_country                   *)
(***************************************************************************)
\* Equality of two country names after trimming both, ignoring case,
\* stated on the characters.
NonSpaceIdx(str) == {i \in 1..Len(str) : str[i] # " "}

Trimmed(str) ==
    IF NonSpaceIdx(str) = {} THEN <<>>
    ELSE SubSeq(str,
                CHOOSE i \in NonSpaceIdx(str) : \A j \in NonSpaceIdx(str) : i <= j,
                CHOOSE i \in NonSpaceIdx(str) : \A j \in NonSpaceIdx(str) : i >= j)

CasePairs == {{"s", "S"}, {"e", "E"}, {"n", "N"}}

SameIgnoringCase(a, b) ==
    /\ Len(a) = Len(b)
    /\ \A i \in 1..Len(a) : a[i] = b[i] \/ {a[i], b[i]} \in CasePairs

CountryEquals(a, b) == SameIgnoringCase(Trimmed(a), Trimmed(b))

\* Positions in the API's list of the cities of the requested country.
MatchIdx ==
    {i \in 1..Len(cities_data) :
        CountryEquals(cities_data[i].country_name, country_name)}

KthMatch(k) ==
    CHOOSE i \in MatchIdx : Cardinality({j \in MatchIdx : j <= i}) = k

CitiesReturned == cpc = "returned" /\ city_answer = "ok"

\* C16: for every country name and every well-formed city list, the
\* cities get_cities_for_country returns are exactly the {id, name} of the
\* cities whose country name equals the requested one case-insensitively
\* after trimming both, in the API's order, and no other city (no city at
\* all when none matches).
C16_CitiesOfCountryInOrder ==
    CitiesReturned
        => IF MatchIdx = {}
              THEN ~Truthy(city_result)
              ELSE /\ city_result.t = "list"
                   /\ Len(city_result.v) = Cardinality(MatchIdx)
                   /\ \A k \in 1..Len(city_result.v) :
                          city_result.v[k] =
                              [id |-> cities_data[KthMatch(k)].id,
                               name |-> cities_data[KthMatch(k)].name]

C16_Witness ==
    /\ CitiesReturned
    /\ Len(cities_data) = 2
    /\ MatchIdx = {2}
    /\ cities_data[2].country_name # country_name
    /\ Len(cities_data[2].country_name) # Len(country_name)
    /\ city_result = PyList(<<[id |-> 7, name |-> "Stockholm"]>>)

\* What get_cities_for_country returns on a transport failure or on a
\* malformed response.
FailureResults ==
    {get_cities_for_country(f, cities_data, country_name) : f \in ResolverFailures}

\* C17: when zero cities match the country, the result of
\* get_cities_for_country is a distinct "no match" outcome: it differs
\* from the result on a transport failure or on a malformed response.
C17_EmptyDistinctFromFailure ==
    (CitiesReturned /\ MatchIdx = {}) => city_result \notin FailureResults

(***************************************************************************)
(*                       Properties of the session                         *)
(***************************************************************************)
\* C21: after any sequence of login attempts and logouts the session holds
\* a token if and only if it holds a username.  Both are set together, by
\* a successful authentication only; both are cleared together by logout;
\* a failed or incomplete login leaves both None.
C21_TokenIffUsername ==
    /\ api_token = PyNone <=> username = PyNone
    /\ Truthy(api_token) <=> Truthy(username)
    /\ api_token # PyNone => (api_token.t = "str" /\ username.t = "str")
    /\ sidebar = "Logged in successfully"
         => (Truthy(api_token) /\ Truthy(username))
    /\ sidebar \in {"Login failed", "Please enter both username and password",
                    "You have been logged out"}
         => (api_token = PyNone /\ username = PyNone)

C21_Witness ==
    /\ sidebar = "Login failed"
    /\ api_token = PyNone
    /\ username = PyNone

\* C22: no authenticated API call of the geo and pixel tools is issued
\* while the session token is None.  A batch is started only with a token
\* held, every position from which a resolver GET or a mutating PUT is
\* issued is left when the operator logs out, and a session without token
\* that has run a tool is one the operator logged out of.
C22_NoCallWithoutToken ==
    /\ pc # "idle" => Truthy(api_token)
    /\ (tool # "none" /\ sidebar # "You have been logged out")
         => Truthy(api_token)
    /\ (tool # "none" /\ api_token = PyNone)
         => /\ pc = "idle"
            /\ sidebar = "You have been logged out"
            /\ batchEnd # "none"

C22_Witness ==
    /\ tool = "pixel"
    /\ batchEnd = "interrupted"
    /\ api_token = PyNone
    /\ hist = <<"get_ok">>
    /\ idx = 2
    /\ Len(reports) = 1

====
